---- MODULE Spec2Model ----
(***************************************************************************)
(* A model of pynote's execution pipeline: the interpreter host            *)
(* (PyodideLoader.getPyodide), the in-runtime execution wrapper run_code,  *)
(* the background worker's message handler, the notebook store's           *)
(* executeCode with its 30 second race, and the output normalizer.         *)
(*                                                                         *)
(* Text is modelled as a sequence of atoms.  An atom is one character, or  *)
(* a run of characters that no operation of the model looks into: a fixed  *)
(* message such as "Running...", or what follows the sixth character of a  *)
(* line of Python, six being the length of the longest prefix that         *)
(* run_code tests.                                                         *)
(***************************************************************************)
EXTENDS Integers, Sequences, FiniteSets, TLC

(***************************************************************************)
(* Bounds of the model.                                                    *)
(***************************************************************************)
MaxAcquire == 3
\* the executions stop once the user's counter `n` has reached this value
MaxCounter == 1
\* the longest array among the raw values given to the normalizer
MaxItems == 2
\* the number of executeCode calls followed
MaxCalls == 2
\* the number of loads (of the engine or of a package) that fail in the worker
MaxFailures == 1
\* the number of installPackage calls followed
MaxInstalls == 1
\* the number of ids uuidv4() hands out, the two of the initial cells included
MaxUuids == 3

(***************************************************************************)
(* Program constants.                                                      *)
(***************************************************************************)
\* the preload list of loadPyodideAndPackages
packages == <<"numpy", "pandas", "matplotlib", "micropip">>
\* the preload list of the worker's initializePyodide
workerPackages == <<"numpy", "matplotlib", "scikit-learn", "micropip">>

(***************************************************************************)
(* Text: sequences of atoms, with the string operations that run_code and  *)
(* the store use.                                                          *)
(***************************************************************************)
IsSpace(a) == a \in {" ", "\n", "\t"}

\* the positions of a text that hold no whitespace
NonSpace(s) == {i \in DOMAIN s : ~IsSpace(s[i])}

\* str.strip() and String.prototype.trim()
Strip(s) ==
    LET ns == NonSpace(s)
    IN  IF ns = {} THEN <<>>
        ELSE SubSeq(s, CHOOSE i \in ns : \A j \in ns : i <= j,
                       CHOOSE i \in ns : \A j \in ns : i >= j)

\* str.split('\n'): the lines of a text
RECURSIVE SplitLines(_)
SplitLines(s) ==
    LET nl == {i \in DOMAIN s : s[i] = "\n"}
    IN  IF nl = {} THEN <<s>>
        ELSE LET i == CHOOSE j \in nl : \A k \in nl : j <= k
             IN  <<SubSeq(s, 1, i - 1)>> \o SplitLines(SubSeq(s, i + 1, Len(s)))

\* '\n'.join(lines)
RECURSIVE JoinLines(_)
JoinLines(ls) ==
    IF ls = <<>> THEN <<>>
    ELSE IF Len(ls) = 1 THEN ls[1]
    ELSE ls[1] \o <<"\n">> \o JoinLines(Tail(ls))

\* str.startswith(p)
StartsWith(s, p) == Len(s) >= Len(p) /\ SubSeq(s, 1, Len(p)) = p

Digit(d) == <<"0", "1", "2", "3", "4", "5", "6", "7", "8", "9">>[d + 1]

\* str(n) and String(n) of a natural number
RECURSIVE StrNat(_)
StrNat(n) == IF n < 10 THEN <<Digit(n)>> ELSE StrNat(n \div 10) \o <<Digit(n % 10)>>

(***************************************************************************)
(* The Python programs of the model.  A source text is made of lines of    *)
(* the catalog below; the catalog stands for the Python parser: a line is  *)
(* what its entry says, and a line that is not in the catalog does not     *)
(* compile.                                                                *)
(***************************************************************************)
ShortStatements == <<
    [src |-> <<"x", " ", "=", " ", "5">>,
     kind |-> "assign", var |-> "x", val |-> 5],
    [src |-> <<"x", " ", "=", " ", "7">>,
     kind |-> "assign", var |-> "x", val |-> 7],
    [src |-> <<"x">>,
     kind |-> "name", var |-> "x", val |-> 0],
    [src |-> <<"p", "r", "i", "n", "t", "(", "x)">>,
     kind |-> "print", var |-> "x", val |-> 0],
    [src |-> <<"r", "a", "i", "s", "e", " ", "ValueError('bad')">>,
     kind |-> "raise", var |-> "", val |-> 0],
    [src |-> <<"s", "y", "s", ".", "e", "x", "it()">>,
     kind |-> "exit", var |-> "", val |-> 0],
    [src |-> <<"p", "l", "t", ".", "p", "l", "ot([1,2,3])">>,
     kind |-> "plot", var |-> "", val |-> 0],
    [src |-> <<"d", "e", "f", " ", "f", "(", "): pass">>,
     kind |-> "def", var |-> "f", val |-> 0],
    [src |-> <<"1", " ", "+", " ", "1">>,
     kind |-> "const", var |-> "", val |-> 2],
    [src |-> <<"s", "y", "s", ".", "s", "t", "derr.write('w')">>,
     kind |-> "warn", var |-> "", val |-> 1],
    [src |-> <<"g", "l", "o", "b", "a", "l", "s().update(n=globals().get('n',0)+1)">>,
     kind |-> "bump", var |-> "n", val |-> 0],
    [src |-> <<"t", "y", "p", "e", "(", "'", "T',(),{'to_html':lambda s:'<b>'})()">>,
     kind |-> "markup", var |-> "", val |-> 0],
    [src |-> <<"t", "y", "p", "e", "(", "'", "U',(),{'to_html':lambda s:5})()">>,
     kind |-> "markup", var |-> "", val |-> 5],
    [src |-> <<"N", "o", "n", "e">>,
     kind |-> "none", var |-> "", val |-> 0],
    [src |-> <<"f", "o", "r", "m", "a", "t", "(5)">>,
     kind |-> "format", var |-> "", val |-> 5],
    [src |-> <<>>,
     kind |-> "blank", var |-> "", val |-> 0]
>>

\* the lines of the sample code cell
SampleStatements == <<
    [src |-> <<"i", "m", "p", "o", "r", "t", " numpy as np">>,
     kind |-> "import", var |-> "numpy", val |-> 0],
    [src |-> <<"i", "m", "p", "o", "r", "t", " matplotlib.pyplot as plt">>,
     kind |-> "import", var |-> "matplotlib", val |-> 0],
    [src |-> <<"#", " ", "S", "a", "m", "p", "le code - try running this!">>,
     kind |-> "comment", var |-> "", val |-> 0],
    [src |-> <<"x", " ", "=", " ", "n", "p", ".linspace(0, 2*np.pi, 100)">>,
     kind |-> "array", var |-> "x", val |-> 0],
    [src |-> <<"y", " ", "=", " ", "n", "p", ".sin(x)">>,
     kind |-> "array", var |-> "y", val |-> 1],
    [src |-> <<"p", "l", "t", ".", "p", "l", "ot(x, y)">>,
     kind |-> "plot", var |-> "", val |-> 1],
    [src |-> <<"p", "l", "t", ".", "t", "i", "tle(\"Sine Wave\")">>,
     kind |-> "plot", var |-> "", val |-> 2],
    [src |-> <<"p", "l", "t", ".", "s", "h", "ow()">>,
     kind |-> "show", var |-> "", val |-> 0]
>>

Statements == ShortStatements \o SampleStatements

\* the statement a line of source is, 0 when it does not compile
Parse(line) ==
    IF \E i \in DOMAIN Statements : Statements[i].src = line
    THEN CHOOSE i \in DOMAIN Statements : Statements[i].src = line
    ELSE 0

\* the kinds of statement that are also expressions, which eval() accepts
ExpressionKinds == {"name", "const", "warn", "bump", "markup", "none", "exit", "format"}

\* the tuple of prefixes run_code passes to startswith
StatementPrefixes == {
    <<"p", "r", "i", "n", "t">>,
    <<"p", "l", "t", ".">>,
    <<"i", "m", "p", "o", "r", "t">>,
    <<"f", "r", "o", "m">>,
    <<"d", "e", "f">>,
    <<"c", "l", "a", "s", "s">>,
    <<"i", "f">>,
    <<"f", "o", "r">>,
    <<"w", "h", "i", "l", "e">>,
    <<"w", "i", "t", "h">>,
    <<"t", "r", "y">>,
    <<"#">>,
    <<"=">>
}

(***************************************************************************)
(* Python values and the interpreter state.                                *)
(***************************************************************************)
PyInt(n) == [t |-> "int", n |-> n]
PyNone == [t |-> "None", n |-> 0]
PyText(s) == [t |-> "str", s |-> s]
\* an instance of a class with a to_html method that returns '<b>' (n = 0) or
\* the integer n
PyMarkup(n) == [t |-> "T", n |-> n]
PyFunction == [t |-> "function", n |-> 0]
PyArray == [t |-> "ndarray", n |-> 0]
Unbound == [t |-> "unbound", n |-> 0]

GlobalNames == {"x", "y", "n", "f"}

\* str(v)
PyStr(v) ==
    CASE v.t = "int" -> StrNat(v.n)
      [] v.t = "None" -> <<"None">>
      [] v.t = "str" -> v.s
      [] v.t = "T" -> <<"<__main__.T object>">>
      [] v.t = "ndarray" -> <<"[0. ... 6.28318531]">>
      [] OTHER -> <<"<function f>">>

\* v.to_html() of the catalog's objects with a to_html method
to_html(v) == IF v.n = 0 THEN PyText(<<"<b>">>) ELSE PyInt(v.n)

\* a mutant of HasToHtml: no value is taken to have the method
NoToHtml(v) == FALSE

\* hasattr(v, 'to_html')
HasToHtml(v) == v.t = "T"

\* the interpreter: __main__'s namespace, the current figure, the packages
\* that can be imported (all of the preload list here), where sys.stdout
\* and sys.stderr point, and what has been written to the real streams
PyInit ==
    [globals |-> [v \in GlobalNames |-> Unbound],
     figure |-> FALSE,
     stdout |-> "__stdout__",
     stderr |-> "__stderr__",
     console |-> 0,
     modules |-> {workerPackages[i] : i \in DOMAIN workerPackages}]

(***************************************************************************)
(* exec(code, global_vars) and eval(last_line, global_vars).               *)
(*                                                                         *)
(* A run is the interpreter state plus the two capture buffers and the     *)
(* exception in flight: exc is "" (none), "Exception" or "BaseException".  *)
(***************************************************************************)
Raise(r, exc, msg) == [r EXCEPT !.exc = exc, !.msg = msg]

NameErrorMsg(v) == <<"name '", v, "' is not defined">>

\* write to sys.stderr: the capture buffer while redirected, else the console
WriteStderr(r, text) ==
    IF r.py.stderr = "error_output"
    THEN [r EXCEPT !.err = @ \o text]
    ELSE [r EXCEPT !.py.console = @ + 1]

\* write to sys.stdout
WriteStdout(r, text) ==
    IF r.py.stdout = "output"
    THEN [r EXCEPT !.out = @ \o text]
    ELSE [r EXCEPT !.py.console = @ + 1]

\* the value of globals().get('n', 0)
CounterValue(g) == IF g["n"].t = "int" THEN g["n"].n ELSE 0

\* a mutant of Bind: the binding goes to a namespace that is thrown away
BindInCopy(r, name, value) == r

\* a binding made by executed code: exec runs against global_vars, which is
\* __main__'s own dictionary
Bind(r, name, value) == [r EXCEPT !.py.globals[name] = value]

\* one statement of the catalog, executed
ExecStatement(r, st) ==
    CASE st.kind = "assign" -> Bind(r, st.var, PyInt(st.val))
      [] st.kind = "name" ->
            IF r.py.globals[st.var] = Unbound
            THEN Raise(r, "Exception", NameErrorMsg(st.var))
            ELSE r
      [] st.kind = "print" ->
            IF r.py.globals[st.var] = Unbound
            THEN Raise(r, "Exception", NameErrorMsg(st.var))
            ELSE WriteStdout(r, PyStr(r.py.globals[st.var]) \o <<"\n">>)
      [] st.kind = "raise" -> Raise(r, "Exception", <<"bad">>)
      [] st.kind = "exit" -> Raise(r, "BaseException", <<>>)
      [] st.kind = "plot" -> [r EXCEPT !.py.figure = TRUE]
      [] st.kind = "def" -> Bind(r, st.var, PyFunction)
      [] st.kind = "warn" -> WriteStderr(r, <<"w">>)
      [] st.kind = "bump" ->
            Bind(r, st.var, PyInt(CounterValue(r.py.globals) + 1))
      [] st.kind = "import" ->
            IF st.var \in r.py.modules THEN r
            ELSE Raise(r, "Exception", <<"No module named '", st.var, "'">>)
      [] st.kind = "array" -> Bind(r, st.var, PyArray)
      [] OTHER -> r

\* the statements of a compiled program, run in order until one raises
RECURSIVE ExecStatements(_, _)
ExecStatements(r, sts) ==
    IF sts = <<>> \/ r.exc # "" THEN r
    ELSE ExecStatements(ExecStatement(r, Statements[Head(sts)]), Tail(sts))

\* exec(code, global_vars): compile the whole text, then run it
exec(r, code) ==
    LET lines == SplitLines(code)
        parsed == [i \in DOMAIN lines |-> Parse(lines[i])]
    IN  IF \E i \in DOMAIN parsed : parsed[i] = 0
        THEN Raise(r, "Exception", <<"invalid syntax">>)
        ELSE ExecStatements(r, parsed)

\* the value of an expression of the catalog
ValueOf(r, st) ==
    CASE st.kind = "name" -> r.py.globals[st.var]
      [] st.kind = "const" -> PyInt(st.val)
      [] st.kind = "warn" -> PyInt(st.val)
      [] st.kind = "markup" -> PyMarkup(st.val)
      [] st.kind = "format" -> PyText(StrNat(st.val))
      [] OTHER -> PyNone

\* eval(last_line, global_vars): the run after the evaluation, and its value;
\* a line that is not an expression raises SyntaxError
eval(r, line) ==
    LET i == Parse(line)
    IN  IF i = 0 \/ Statements[IF i = 0 THEN 1 ELSE i].kind \notin ExpressionKinds
        THEN [run |-> Raise(r, "Exception", <<"invalid syntax">>), value |-> PyNone]
        ELSE LET after == ExecStatement(r, Statements[i])
             IN  [run |-> after, value |-> ValueOf(after, Statements[i])]

(***************************************************************************)
(* JavaScript values: a tag and, by tag, a text, a number, the entries of  *)
(* an object or Map in insertion order, or the items of an array or Set.   *)
(***************************************************************************)
JUndefined == [tag |-> "undefined"]
JNull == [tag |-> "null"]
JString(s) == [tag |-> "string", s |-> s]
JNumber(n) == [tag |-> "number", n |-> n]
JBoolean(b) == [tag |-> "boolean", b |-> b]
JObject(entries) == [tag |-> "object", entries |-> entries]
JMap(entries) == [tag |-> "Map", entries |-> entries]
JArray(items) == [tag |-> "Array", items |-> items]
JSet(items) == [tag |-> "Set", items |-> items]
\* a PyProxy: an object with toJs() and destroy(); target is what toJs() gives
PyProxy(target) == [tag |-> "PyProxy", target |-> target]

Entry(k, v) == [k |-> k, v |-> v]

\* `key in obj` for an object's own entries
HasKey(entries, key) == \E i \in DOMAIN entries : entries[i].k = key

\* obj[key], undefined when absent
Get(entries, key) ==
    IF HasKey(entries, key)
    THEN entries[CHOOSE i \in DOMAIN entries : entries[i].k = key].v
    ELSE JUndefined

\* a Python dict {'type': type, 'data': data} of run_code; data is a Python
\* value
PyRecord(type, data) == [type |-> type, data |-> data]

\* pyodide.ffi.to_js of a str or an int
to_js_value(v) == IF v.t = "str" THEN JString(v.s) ELSE JNumber(v.n)

\* pyodide.ffi.to_js of such a dict: a Map, keys in insertion order
to_js(rec) ==
    JMap(<<Entry("type", JString(<<rec.type>>)), Entry("data", to_js_value(rec.data))>>)

\* to_js of a list of such dicts: an Array of Maps
to_js_list(recs) == JArray([i \in DOMAIN recs |-> to_js(recs[i])])

(***************************************************************************)
(* run_code, the execution wrapper of KERNEL_CODE.  The result is the      *)
(* interpreter after the call, whether an exception escaped, the value     *)
(* returned, and the local list `outputs` as it was when the call ended.   *)
(***************************************************************************)
\* the except clause: `except Exception as e`
CaughtByExcept(exc) == exc = "Exception"

\* a mutant of RestoreStreams: the streams stay redirected
KeepStreams(py) == py

\* the finally clause
RestoreStreams(py) == [py EXCEPT !.stdout = "__stdout__", !.stderr = "__stderr__"]

\* the try body after exec: captured stdout first, then the figure
CollectOutputs(r) ==
    LET stdout_val == Strip(r.out)
        texts == IF stdout_val # <<>> THEN <<PyRecord("text", PyText(stdout_val))>> ELSE <<>>
    IN  IF r.py.figure
        THEN [py |-> [r.py EXCEPT !.figure = FALSE],
              outputs |-> Append(texts, PyRecord("image", PyText(<<"iVBORw0KGgo=">>)))]
        ELSE [py |-> r.py, outputs |-> texts]

\* a mutant of LooksLikeExpression: every line that is not blank is evaluated
NotBlank(last_line) == last_line # <<>>

\* the test on the last line before eval
LooksLikeExpression(last_line) ==
    /\ last_line # <<>>
    /\ \A p \in StatementPrefixes : ~StartsWith(last_line, p)

\* the last-expression block, with its bare except
LastExpression(py, code, outputs) ==
    LET lines == SplitLines(Strip(code))
        last_line == Strip(lines[Len(lines)])
    IN  IF ~LooksLikeExpression(last_line)
        THEN [py |-> py, outputs |-> outputs]
        ELSE LET e == eval([py |-> py, out |-> <<>>, err |-> <<>>, exc |-> "", msg |-> <<>>],
                           last_line)
             IN  IF e.run.exc # "" \/ e.value = PyNone
                 THEN [py |-> e.run.py, outputs |-> outputs]
                 ELSE IF HasToHtml(e.value)
                 THEN [py |-> e.run.py,
                       outputs |-> Append(outputs, PyRecord("html", to_html(e.value)))]
                 ELSE [py |-> e.run.py,
                       outputs |-> Append(outputs, PyRecord("text", PyText(PyStr(e.value))))]

\* a mutant of ReturnOutputs: a single entry is returned as a one-element list
ReturnOutputsAsList(outputs) ==
    IF Len(outputs) >= 1 THEN to_js_list(outputs)
    ELSE to_js(PyRecord("string", PyText(<<>>)))

\* the return statement at the end of run_code
ReturnOutputs(outputs) ==
    IF Len(outputs) > 1 THEN to_js_list(outputs)
    ELSE IF Len(outputs) = 1 THEN to_js(outputs[1])
    ELSE to_js(PyRecord("string", PyText(<<>>)))

run_code(py0, code) ==
    LET r == exec([py |-> [py0 EXCEPT !.stdout = "output", !.stderr = "error_output"],
                   out |-> <<>>, err |-> <<>>, exc |-> "", msg |-> <<>>], code)
    IN  IF r.exc # ""
        THEN IF CaughtByExcept(r.exc)
             THEN [py |-> RestoreStreams(r.py), raised |-> FALSE, outputs |-> <<>>,
                   result |-> to_js(PyRecord("error",
                       PyText(IF r.err # <<>> THEN Strip(r.err) \o <<"\n">> \o r.msg
                              ELSE r.msg)))]
             ELSE [py |-> RestoreStreams(r.py), raised |-> TRUE, outputs |-> <<>>,
                   result |-> JUndefined]
        ELSE LET c == CollectOutputs(r)
                 stderr_val == Strip(r.err)
             IN  IF stderr_val # <<>>
                 THEN [py |-> RestoreStreams(c.py), raised |-> FALSE, outputs |-> c.outputs,
                       result |-> to_js(PyRecord("error", PyText(stderr_val)))]
                 ELSE LET l == LastExpression(RestoreStreams(c.py), code, c.outputs)
                      IN  [py |-> l.py, raised |-> FALSE, outputs |-> l.outputs,
                           result |-> ReturnOutputs(l.outputs)]

(***************************************************************************)
(* JSON.stringify(value, null, 2) and String(value).                       *)
(***************************************************************************)
Spaces(n) == [i \in 1..n |-> " "]

\* typeof v === 'object' (null included)
TypeofObject(v) == v.tag \in {"null", "object", "Map", "Set", "Array", "PyProxy"}

\* the own enumerable properties JSON.stringify writes: those of a plain
\* object whose value is not undefined; a Map, a Set or a proxy has none
JsonEntries(v) ==
    IF v.tag = "object"
    THEN SelectSeq(v.entries, LAMBDA e : e.v.tag # "undefined")
    ELSE <<>>

RECURSIVE JsonText(_, _)
RECURSIVE JsonItems(_, _)
RECURSIVE JsonProperties(_, _)

\* the items of an array, one per line at indentation ind
JsonItems(items, ind) ==
    IF items = <<>> THEN <<>>
    ELSE Spaces(ind)
         \o (IF Head(items).tag = "undefined" THEN <<"null">> ELSE JsonText(Head(items), ind))
         \o (IF Len(items) > 1 THEN <<",", "\n">> \o JsonItems(Tail(items), ind) ELSE <<"\n">>)

\* the properties of an object, one per line at indentation ind
JsonProperties(entries, ind) ==
    IF entries = <<>> THEN <<>>
    ELSE Spaces(ind) \o <<"\"", Head(entries).k, "\"", ":", " ">>
         \o JsonText(Head(entries).v, ind)
         \o (IF Len(entries) > 1 THEN <<",", "\n">> \o JsonProperties(Tail(entries), ind)
             ELSE <<"\n">>)

\* the text JSON.stringify gives for a value that is not undefined
JsonText(v, ind) ==
    CASE v.tag = "string" -> <<"\"">> \o v.s \o <<"\"">>
      [] v.tag = "number" -> StrNat(v.n)
      [] v.tag = "boolean" -> IF v.b THEN <<"true">> ELSE <<"false">>
      [] v.tag = "null" -> <<"null">>
      [] v.tag = "Array" ->
            IF v.items = <<>> THEN <<"[", "]">>
            ELSE <<"[", "\n">> \o JsonItems(v.items, ind + 2) \o Spaces(ind) \o <<"]">>
      [] OTHER ->
            IF JsonEntries(v) = <<>> THEN <<"{", "}">>
            ELSE <<"{", "\n">> \o JsonProperties(JsonEntries(v), ind + 2) \o Spaces(ind)
                 \o <<"}">>

\* JSON.stringify(v, null, 2) as a JavaScript value: undefined for undefined
JSON_stringify(v) == IF v.tag = "undefined" THEN JUndefined ELSE JString(JsonText(v, 0))

\* String(v) of a primitive
StringOf(v) ==
    CASE v.tag = "string" -> v.s
      [] v.tag = "number" -> StrNat(v.n)
      [] v.tag = "boolean" -> IF v.b THEN <<"true">> ELSE <<"false">>
      [] v.tag = "null" -> <<"null">>
      [] OTHER -> <<"undefined">>

\* the truthiness of a value
Truthy(v) ==
    CASE v.tag \in {"undefined", "null"} -> FALSE
      [] v.tag = "string" -> v.s # <<>>
      [] v.tag = "number" -> v.n # 0
      [] v.tag = "boolean" -> v.b
      [] OTHER -> TRUE

\* the object literal { type: t, data: d }
CellOutput(t, d) == JObject(<<Entry("type", t), Entry("data", d)>>)

(***************************************************************************)
(* The worker's side of the reply: sanitizeForPostMessage and the          *)
(* conversion of run_code's return value in the 'execute' case.            *)
(***************************************************************************)
\* a mutant of sanitizeForPostMessage: only the value itself is converted,
\* not what it holds
sanitizeShallow(obj) ==
    CASE obj.tag \in {"Map", "object"} -> JObject(obj.entries)
      [] obj.tag \in {"Set", "Array"} -> JArray(obj.items)
      [] OTHER -> obj

RECURSIVE sanitizeForPostMessage(_)
sanitizeForPostMessage(obj) ==
    CASE obj.tag \in {"Map", "object"} ->
            JObject([i \in DOMAIN obj.entries |->
                        Entry(obj.entries[i].k, sanitizeForPostMessage(obj.entries[i].v))])
      [] obj.tag \in {"Set", "Array"} ->
            JArray([i \in DOMAIN obj.items |-> sanitizeForPostMessage(obj.items[i])])
      [] OTHER -> obj

\* sanitizedResult && typeof sanitizedResult === 'object' && sanitizedResult.type
\* && sanitizedResult.data !== undefined
hasCellOutputFormat(v) ==
    /\ v.tag = "object"
    /\ Truthy(Get(v.entries, "type"))
    /\ Get(v.entries, "data").tag # "undefined"

\* `output` of the 'execute' case for a value returned by runCodeKernel
convertResult(result) ==
    IF result.tag = "PyProxy"
    THEN LET sanitizedResult == sanitizeForPostMessage(result.target)
         IN  IF sanitizedResult.tag = "Array" \/ hasCellOutputFormat(sanitizedResult)
             THEN sanitizedResult
             ELSE CellOutput(JString(<<"string">>), JSON_stringify(sanitizedResult))
    ELSE LET sanitizedResult == sanitizeForPostMessage(result)
         IN  IF sanitizedResult.tag = "Array" \/ hasCellOutputFormat(sanitizedResult)
             THEN sanitizedResult
             ELSE IF Truthy(sanitizedResult) /\ TypeofObject(sanitizedResult)
             THEN CellOutput(JString(<<"string">>), JSON_stringify(sanitizedResult))
             ELSE CellOutput(JString(<<"string">>),
                             IF sanitizedResult.tag \notin {"undefined", "null"}
                             THEN JString(StringOf(sanitizedResult))
                             ELSE JString(<<>>))

\* the messages the worker posts
ResultMessage(data, id) == [type |-> "result", data |-> data, id |-> id]
ErrorMessage(data, id) == [type |-> "error", data |-> JString(data), id |-> id]
\* the error message of initializePyodide's catch: it has no id
InitErrorMessage(data) == [type |-> "error", data |-> JString(data), id |-> 0]
ReadyMessage == [type |-> "ready", data |-> JUndefined, id |-> 0]

(***************************************************************************)
(* The output normalizer of executeCode (the if/else chain between the     *)
(* race and the final set).                                                *)
(***************************************************************************)
\* the predicate of outputFromPython.every(...)
isValidOutputItem(item) ==
    /\ Truthy(item)
    /\ TypeofObject(item)
    /\ item.tag = "object"
    /\ HasKey(item.entries, "type")
    /\ HasKey(item.entries, "data")

\* a mutant of the array test: one valid item is enough
someValidOutputItem(items) == \E i \in DOMAIN items : isValidOutputItem(items[i])

isValidOutputArray(items) == \A i \in DOMAIN items : isValidOutputItem(items[i])

\* the value of `output` for a value of outputFromPython
normalizeOutput(v) ==
    IF Truthy(v) /\ TypeofObject(v)
    THEN CASE v.tag = "Array" ->
                IF isValidOutputArray(v.items) THEN v
                ELSE CellOutput(JString(<<"string">>), JSON_stringify(v))
           [] v.tag = "object" /\ HasKey(v.entries, "type") /\ HasKey(v.entries, "data") -> v
           [] v.tag = "Map" -> JObject(v.entries)
           [] v.tag = "PyProxy" -> v.target
           [] OTHER ->
                IF v.tag = "object" /\ Truthy(Get(v.entries, "type"))
                   /\ Get(v.entries, "data").tag # "undefined"
                THEN CellOutput(Get(v.entries, "type"), Get(v.entries, "data"))
                ELSE CellOutput(JString(<<"string">>), JSON_stringify(v))
    ELSE CellOutput(JString(<<"string">>),
                    IF v.tag # "undefined" THEN JString(StringOf(v)) ELSE JString(<<>>))

VARIABLES
    \* ---- PyodideLoader (main thread) ----
    pyodide,               \* module variable: 0 = undefined, else the id of the loaded instance
    pyodideReadyPromise,   \* module variable: 0 = undefined, else the id of the memoised promise
    isPyodideInitialized,  \* module variable
    loads,                 \* the invocations of loadPyodideAndPackages, one record each
    acquired,              \* history: what each getPyodide() call returned
    pageAlive,             \* FALSE once beforeunload has fired
    FS,                    \* the directories created in the main thread's runtime
    installs,              \* the installPackage invocations, one record each
    \* ---- notebook store ----
    status,
    isKernelReady,
    \* ---- the Python runtime that executes cells ----
    py,                    \* the interpreter: namespace, figure, streams
    lastCall,              \* history: the source and the interpreter before the last run_code call
    \* ---- the normalizer applied to one raw value ----
    outputFromPython,      \* the raw value
    output,                \* the normalizer's result, [tag |-> "unset"] before it ran
    \* ---- the notebook: store, channel and worker ----
    cells,                 \* the store's cells, in display order
    calls,                 \* the executeCode invocations, in call order
    handlers,              \* the worker's onmessage invocations, in message order
    workerPyodide,         \* the worker's `pyodide` and what has been set up in it
    inbox,                 \* the worker's messages not yet delivered to the page
    uuids,                 \* the number of ids uuidv4() has handed out
    \* ---- the 'execute' case applied to one return value of run_code ----
    kernelResult,          \* what `await runCodeKernel(data.code)` gave
    reply                  \* the message posted for it, [type |-> "unset"] before

hostVars == <<pyodide, pyodideReadyPromise, isPyodideInitialized, loads, acquired, pageAlive,
              FS, installs>>
storeVars == <<status, isKernelReady>>
kernelVars == <<py, lastCall>>
normVars == <<outputFromPython, output>>
postVars == <<kernelResult, reply>>
notebookVars == <<cells, calls, handlers, workerPyodide, inbox, uuids>>
\* what no action of the store or the worker touches
restVars == <<hostVars, storeVars, lastCall, normVars, postVars>>
\* what no action of the notebook touches
otherVars == <<restVars, uuids>>
vars == <<hostVars, storeVars, kernelVars, normVars, notebookVars, postVars>>

(***************************************************************************)
(* Interpreter host: getPyodide / loadPyodideAndPackages.                  *)
(*                                                                         *)
(* Every invocation of loadPyodideAndPackages is a record of `loads`; the  *)
(* promise it returns has the invocation's index as its id and its state   *)
(* follows the invocation's position.                                      *)
(***************************************************************************)
PromiseState(i) ==
    CASE loads[i].pc = "done" -> "fulfilled"
      [] loads[i].pc = "failed" -> "rejected"
      [] OTHER -> "pending"

\* the number of engine loads (loadPyodide calls) started so far
LoadsStarted == Cardinality({i \in DOMAIN loads : loads[i].started})

\* the catch block of loadPyodideAndPackages; failure is history: the step
\* that threw
LoadFailed(i, step, msg) ==
    /\ loads' = [loads EXCEPT ![i].pc = "failed", ![i].failure = step]
    /\ status' = "Error: " \o msg

\* loadPyodideAndPackages up to its first await
loadPyodideAndPackages ==
    IF pyodide # 0
    THEN /\ loads' = Append(loads, [pc |-> "done", k |-> 0, started |-> FALSE, failure |-> ""])
         /\ UNCHANGED status
    ELSE /\ loads' = Append(loads, [pc |-> "engine", k |-> 0, started |-> TRUE,
                                        failure |-> ""])
         /\ status' = "Downloading Python runtime..."

\* a mutant of the memoisation test: every call loads again
NoMemo(p) == TRUE

\* getPyodide's test `!pyodideReadyPromise`
NoPromiseYet(p) == p = 0

getPyodide ==
    /\ pageAlive
    /\ Len(acquired) < MaxAcquire
    /\ IF NoPromiseYet(pyodideReadyPromise)
       THEN /\ loadPyodideAndPackages
            /\ pyodideReadyPromise' = Len(loads) + 1
            /\ acquired' = Append(acquired, [promise |-> Len(loads) + 1, at |-> "new"])
       ELSE /\ acquired' = Append(acquired,
                  [promise |-> pyodideReadyPromise, at |-> PromiseState(pyodideReadyPromise)])
            /\ UNCHANGED <<loads, status, pyodideReadyPromise>>
    /\ UNCHANGED <<pyodide, isPyodideInitialized, pageAlive, isKernelReady, FS, installs>>
    /\ UNCHANGED <<kernelVars, normVars, notebookVars, postVars>>

\* `pyodide = await loadPyodide(...)` settles
engineLoaded(i) ==
    /\ pageAlive
    /\ loads[i].pc = "engine"
    /\ \E ok \in BOOLEAN :
         IF ok
         THEN /\ pyodide' = i
              /\ loads' = [loads EXCEPT ![i].pc = "pkg", ![i].k = 1]
              /\ status' = "Loading " \o packages[1] \o "..."
         ELSE /\ LoadFailed(i, "engine", "engine load failed")
              /\ UNCHANGED pyodide
    /\ UNCHANGED <<pyodideReadyPromise, isPyodideInitialized, acquired, pageAlive, isKernelReady,
                   FS, installs>>
    /\ UNCHANGED <<kernelVars, normVars, notebookVars, postVars>>

\* `await pyodide.loadPackage(pkg)` settles for a package that is not the last one
packageLoaded(i) ==
    /\ pageAlive
    /\ loads[i].pc = "pkg"
    /\ loads[i].k < Len(packages)
    /\ \E ok \in BOOLEAN :
         IF ok
         THEN /\ loads' = [loads EXCEPT ![i].k = @ + 1]
              /\ status' = "Loading " \o packages[loads[i].k + 1] \o "..."
         ELSE LoadFailed(i, "package", "failed to load " \o packages[loads[i].k])
    /\ UNCHANGED <<pyodide, pyodideReadyPromise, isPyodideInitialized, acquired, pageAlive,
                   isKernelReady, FS, installs>>
    /\ UNCHANGED <<kernelVars, normVars, notebookVars, postVars>>

\* the last loadPackage settles; the rest of loadPyodideAndPackages runs without
\* an await: runPython(KERNEL_CODE), mkdirTree, runPython(helpers), setKernelReady,
\* and then getPyodide's .then callback
kernelBootstrapped(i) ==
    /\ pageAlive
    /\ loads[i].pc = "pkg"
    /\ loads[i].k = Len(packages)
    /\ \E outcome \in {"ok", "package", "bootstrap"} :
         CASE outcome = "ok" ->
                /\ loads' = [loads EXCEPT ![i].pc = "done"]
                /\ status' = "Python kernel ready."
                /\ isKernelReady' = TRUE
                /\ isPyodideInitialized' = TRUE
                /\ FS' = FS \cup {"/content"}
           [] outcome = "package" ->
                /\ LoadFailed(i, "package", "failed to load " \o packages[loads[i].k])
                /\ UNCHANGED <<isKernelReady, isPyodideInitialized, FS>>
           [] outcome = "bootstrap" ->
                /\ LoadFailed(i, "bootstrap", "bootstrap failed")
                /\ UNCHANGED <<isKernelReady, isPyodideInitialized, FS>>
    /\ UNCHANGED <<pyodide, pyodideReadyPromise, acquired, pageAlive, installs>>
    /\ UNCHANGED <<kernelVars, normVars, notebookVars, postVars>>

\* the beforeunload listener: cleanupPyodide, and the page goes away
beforeunload ==
    /\ pageAlive
    /\ pageAlive' = FALSE
    /\ IF isPyodideInitialized /\ pyodide # 0
       THEN /\ pyodide' = 0
            /\ pyodideReadyPromise' = 0
            /\ isPyodideInitialized' = FALSE
       ELSE UNCHANGED <<pyodide, pyodideReadyPromise, isPyodideInitialized>>
    /\ UNCHANGED <<loads, acquired, status, isKernelReady, FS, installs>>
    /\ UNCHANGED <<kernelVars, normVars, notebookVars, postVars>>

HostInit ==
    /\ pyodide = 0
    /\ pyodideReadyPromise = 0
    /\ isPyodideInitialized = FALSE
    /\ loads = <<>>
    /\ acquired = <<>>
    /\ pageAlive = TRUE
    /\ FS = {}
    /\ installs = <<>>

StoreInit ==
    /\ status = "Initializing..."
    /\ isKernelReady = FALSE

KernelInit ==
    /\ py = PyInit
    /\ lastCall = [ran |-> FALSE, code |-> <<>>, before |-> PyInit]

NormInit ==
    /\ outputFromPython = JUndefined
    /\ output = [tag |-> "unset"]

PostInit ==
    /\ kernelResult = JUndefined
    /\ reply = [type |-> "unset"]

\* a cell as the store creates it: no output, not executing
Cell(id, type, content) ==
    [id |-> id, type |-> type, content |-> content, output |-> JUndefined,
     isExecuting |-> FALSE]

\* the content of the sample code cell
SampleCode ==
    JoinLines(<<SampleStatements[1].src, SampleStatements[2].src, <<>>,
                SampleStatements[3].src, SampleStatements[4].src, SampleStatements[5].src,
                SampleStatements[6].src, SampleStatements[7].src, SampleStatements[8].src>>)

\* the worker before any load: `pyodide` is null; instances counts the runtimes
\* created and failures the loads that failed
NoRuntime ==
    [loaded |-> FALSE, kernel |-> FALSE, dirs |-> {}, instances |-> 0, failures |-> 0]

NotebookInit ==
    /\ cells = <<Cell("c1", "markdown", <<"# Welcome to PyNote!">>),
                 Cell("c2", "code", SampleCode)>>
    /\ calls = <<>>
    /\ handlers = <<>>
    /\ workerPyodide = NoRuntime
    /\ uuids = 2
    /\ inbox = <<>>

Init ==
    /\ HostInit
    /\ StoreInit
    /\ KernelInit
    /\ NormInit
    /\ PostInit
    /\ NotebookInit

HostNext ==
    \/ getPyodide
    \/ \E i \in DOMAIN loads : engineLoaded(i)
    \/ \E i \in DOMAIN loads : packageLoaded(i)
    \/ \E i \in DOMAIN loads : kernelBootstrapped(i)
    \/ beforeunload

SpecHost == Init /\ [][HostNext]_vars

(***************************************************************************)
(* installPackage of the store: it acquires the main thread's runtime,     *)
(* loads micropip and installs the package; its only writes are to         *)
(* `status`.  An invocation is a record of `installs`.                     *)
(***************************************************************************)
PackageNames == {"seaborn", "nosuchpkg"}

InstallingStatus(packageName) == "Installing '" \o packageName \o "'..."

InstalledStatus(packageName) == "Successfully installed '" \o packageName \o "'"

\* a mutant of InstallErrorStatus: the failure is reported without its cause
InstallErrorWithoutCause(packageName, message) == "Error installing '" \o packageName \o "'"

\* the status set by the catch block
InstallErrorStatus(packageName, message) ==
    "Error installing '" \o packageName \o "': " \o message

\* the message of the error a failed load rejected its promise with
LoadErrorMessage(load) ==
    CASE load.failure = "engine" -> "engine load failed"
      [] load.failure = "package" -> "failed to load " \o packages[load.k]
      [] OTHER -> "bootstrap failed"

\* installPackage up to its first await: the status, and the getPyodide()
\* call, which starts a load when no promise is memoised (the load then
\* replaces the status at once)
installPackage(packageName) ==
    /\ pageAlive
    /\ Len(installs) < MaxInstalls
    /\ IF NoPromiseYet(pyodideReadyPromise)
       THEN /\ loadPyodideAndPackages
            /\ pyodideReadyPromise' = Len(loads) + 1
            /\ installs' = Append(installs, [name |-> packageName, pc |-> "acquire",
                                             promise |-> Len(loads) + 1, message |-> ""])
       ELSE /\ status' = InstallingStatus(packageName)
            /\ installs' = Append(installs, [name |-> packageName, pc |-> "acquire",
                                             promise |-> pyodideReadyPromise,
                                             message |-> ""])
            /\ UNCHANGED <<loads, pyodideReadyPromise>>
    /\ UNCHANGED <<pyodide, isPyodideInitialized, acquired, pageAlive, isKernelReady, FS>>
    /\ UNCHANGED <<kernelVars, normVars, notebookVars, postVars>>

\* the catch block of installPackage; message is history
installFailed(j, message) ==
    /\ installs' = [installs EXCEPT ![j].pc = "failed", ![j].message = message]
    /\ status' = InstallErrorStatus(installs[j].name, message)

\* `await getPyodide()` settles
installAcquired(j) ==
    /\ pageAlive
    /\ installs[j].pc = "acquire"
    /\ PromiseState(installs[j].promise) # "pending"
    /\ IF PromiseState(installs[j].promise) = "fulfilled"
       THEN /\ installs' = [installs EXCEPT ![j].pc = "micropip"]
            /\ UNCHANGED status
       ELSE installFailed(j, LoadErrorMessage(loads[installs[j].promise]))
    /\ UNCHANGED <<pyodide, pyodideReadyPromise, isPyodideInitialized, loads, acquired,
                   pageAlive, isKernelReady, FS>>
    /\ UNCHANGED <<kernelVars, normVars, notebookVars, postVars>>

\* `await pyodide.loadPackage('micropip')` settles
micropipLoaded(j, ok) ==
    /\ pageAlive
    /\ installs[j].pc = "micropip"
    /\ IF ok
       THEN /\ installs' = [installs EXCEPT ![j].pc = "install"]
            /\ UNCHANGED status
       ELSE installFailed(j, "failed to load micropip")
    /\ UNCHANGED <<pyodide, pyodideReadyPromise, isPyodideInitialized, loads, acquired,
                   pageAlive, isKernelReady, FS>>
    /\ UNCHANGED <<kernelVars, normVars, notebookVars, postVars>>

\* `await micropip.install(packageName)` settles
micropipInstalled(j, ok) ==
    /\ pageAlive
    /\ installs[j].pc = "install"
    /\ IF ok
       THEN /\ installs' = [installs EXCEPT ![j].pc = "done"]
            /\ status' = InstalledStatus(installs[j].name)
       ELSE installFailed(j, "Can't find a pure Python 3 wheel for '"
                                 \o installs[j].name \o "'")
    /\ UNCHANGED <<pyodide, pyodideReadyPromise, isPyodideInitialized, loads, acquired,
                   pageAlive, isKernelReady, FS>>
    /\ UNCHANGED <<kernelVars, normVars, notebookVars, postVars>>

InstallNext ==
    \/ HostNext
    \/ \E packageName \in PackageNames : installPackage(packageName)
    \/ \E j \in DOMAIN installs : installAcquired(j)
    \/ \E j \in DOMAIN installs, ok \in BOOLEAN : micropipLoaded(j, ok)
    \/ \E j \in DOMAIN installs, ok \in BOOLEAN : micropipInstalled(j, ok)

SpecInstall == Init /\ [][InstallNext]_vars

(***************************************************************************)
(* The execution wrapper on its own: a sequence of run_code calls on one   *)
(* interpreter, each with a source text of at most two catalog lines.      *)
(***************************************************************************)
Line(kind, val) ==
    Statements[CHOOSE i \in DOMAIN Statements :
                   Statements[i].kind = kind /\ Statements[i].val = val].src

Programs ==
    {ShortStatements[i].src : i \in DOMAIN ShortStatements}
    \cup {JoinLines(<<ShortStatements[i].src, ShortStatements[j].src>>) :
             i \in DOMAIN ShortStatements, j \in DOMAIN ShortStatements}
    \cup {JoinLines(<<Line("print", 0), Line("plot", 0), Line("name", 0)>>),
          JoinLines(<<Line("assign", 5), Line("print", 0), Line("raise", 0)>>)}

\* `runCodeKernel(code)`: one call of run_code on the interpreter
runCodeKernel(code) ==
    /\ CounterValue(py.globals) < MaxCounter
    /\ py' = run_code(py, code).py
    /\ lastCall' = [ran |-> TRUE, code |-> code, before |-> py]

\* what the last run_code call returned
LastRun == run_code(lastCall.before, lastCall.code)

KernelNext ==
    \E code \in Programs :
        /\ runCodeKernel(code)
        /\ UNCHANGED <<hostVars, storeVars, normVars, notebookVars, postVars>>

SpecKernel == Init /\ [][KernelNext]_vars

(***************************************************************************)
(* The normalizer on its own: any of a set of raw values comes back from   *)
(* the execution, and the if/else chain of executeCode is applied to it.   *)
(***************************************************************************)
SampleEntries == {
    <<Entry("type", JString(<<"text">>)), Entry("data", JString(<<"h", "i">>))>>,
    <<Entry("type", JString(<<"error">>)), Entry("data", JString(<<"bad">>))>>,
    <<Entry("data", JString(<<"h", "i">>)), Entry("type", JString(<<"html">>))>>,
    <<Entry("type", JString(<<"text">>))>>,
    <<Entry("data", JString(<<"h", "i">>))>>,
    <<Entry("type", JString(<<>>)), Entry("data", JString(<<"x">>))>>,
    <<Entry("type", JString(<<"text">>)), Entry("data", JUndefined)>>,
    <<Entry("type", JString(<<"text">>)), Entry("data", JNumber(5))>>,
    <<Entry("a", JNumber(1)), Entry("b", JArray(<<JNull>>))>>,
    <<>> }

Primitives ==
    {JUndefined, JNull, JString(<<>>), JString(<<"h", "i">>), JNumber(0), JNumber(7),
     JBoolean(TRUE), JBoolean(FALSE)}

FlatValues ==
    Primitives
    \cup {JObject(e) : e \in SampleEntries}
    \cup {JMap(e) : e \in SampleEntries}
    \cup {JSet(<<>>), JSet(<<JNumber(7)>>)}

\* what an array may hold
ItemValues ==
    {JObject(<<Entry("type", JString(<<"text">>)), Entry("data", JString(<<"h", "i">>))>>),
     JObject(<<Entry("type", JString(<<"image">>)), Entry("data", JString(<<"iVBORw0KGgo=">>))>>),
     JObject(<<Entry("a", JNumber(1))>>),
     JMap(<<Entry("type", JString(<<"text">>)), Entry("data", JString(<<"h", "i">>))>>),
     JString(<<"h", "i">>),
     JNull,
     JUndefined}

ArrayValues ==
    {JArray(items) : items \in UNION {[1..n -> ItemValues] : n \in 0..MaxItems}}

RawValues ==
    FlatValues
    \cup ArrayValues
    \cup {PyProxy(v) : v \in FlatValues}

\* a raw value comes back from the execution
receive(v) ==
    /\ output.tag # "unset" \/ outputFromPython = JUndefined
    /\ outputFromPython' = v
    /\ output' = [tag |-> "unset"]
    /\ UNCHANGED <<hostVars, storeVars, kernelVars, notebookVars, postVars>>

\* the if/else chain runs
normalize ==
    /\ output.tag = "unset"
    /\ output' = normalizeOutput(outputFromPython)
    /\ UNCHANGED <<outputFromPython, hostVars, storeVars, kernelVars, notebookVars, postVars>>

NormNext ==
    \/ \E v \in RawValues : receive(v)
    \/ normalize

SpecNorm == Init /\ [][NormNext]_vars

(***************************************************************************)
(* The 'execute' case on its own, from the return of runCodeKernel to the  *)
(* reply: any of a set of values comes back from run_code, is converted,   *)
(* sanitized and posted.                                                   *)
(***************************************************************************)
\* values with maps and sets below the top level
NestedValues == {
    JMap(<<Entry("type", JString(<<"text">>)),
           Entry("data", JMap(<<Entry("a", JSet(<<JNumber(1)>>))>>))>>),
    JArray(<<JObject(<<Entry("k", JArray(<<JMap(<<>>)>>))>>)>>),
    JSet(<<JMap(<<Entry("type", JString(<<"text">>)), Entry("data", JString(<<"h", "i">>))>>),
           JSet(<<>>)>>),
    JObject(<<Entry("type", JString(<<"html">>)),
              Entry("data", JSet(<<JString(<<"h", "i">>)>>))>>),
    JArray(<<PyProxy(JNull)>>) }

KernelResults ==
    RawValues \cup NestedValues \cup {PyProxy(v) : v \in NestedValues}

\* the structured clone made by postMessage: a proxy cannot be cloned
RECURSIVE Cloneable(_)
Cloneable(v) ==
    CASE v.tag = "PyProxy" -> FALSE
      [] v.tag \in {"object", "Map"} -> \A i \in DOMAIN v.entries : Cloneable(v.entries[i].v)
      [] v.tag \in {"Array", "Set"} -> \A i \in DOMAIN v.items : Cloneable(v.items[i])
      [] OTHER -> TRUE

\* `const result = await runCodeKernel(data.code)` of a request with id 1
runCodeKernelReturns(v) ==
    /\ reply.type # "unset" \/ kernelResult = JUndefined
    /\ kernelResult' = v
    /\ reply' = [type |-> "unset"]
    /\ UNCHANGED <<hostVars, storeVars, kernelVars, normVars, notebookVars>>

\* the conversion, the final sanitizeForPostMessage and postMessage; when
\* postMessage throws, the outer catch posts the error
postResult ==
    /\ reply.type = "unset"
    /\ \E finalOutput \in {sanitizeForPostMessage(convertResult(kernelResult))} :
          reply' = IF Cloneable(finalOutput)
                   THEN ResultMessage(finalOutput, 1)
                   ELSE ErrorMessage(<<"DataCloneError">>, 1)
    /\ UNCHANGED <<kernelResult, hostVars, storeVars, kernelVars, normVars, notebookVars>>

PostNext ==
    \/ \E v \in KernelResults : runCodeKernelReturns(v)
    \/ postResult

SpecPost == Init /\ [][PostNext]_vars

(***************************************************************************)
(* The notebook: the store's cell actions and executeCode on the page, the *)
(* channel to the worker, and the worker's handler of 'execute' messages.  *)
(* A request id is the position of its message among those posted to the   *)
(* worker.  The sample code cell is edited once, to one of CellSources.    *)
(***************************************************************************)
\* the sources typed into a code cell
CellSources ==
    {Line("markup", 5),
     Line("warn", 1)}

\* cells.findIndex(c => c.id === id): an index from 0, -1 for no match
findIndex(cs, id) ==
    IF \E i \in DOMAIN cs : cs[i].id = id
    THEN (CHOOSE i \in DOMAIN cs : cs[i].id = id /\ \A j \in 1..(i - 1) : cs[j].id # id) - 1
    ELSE -1

\* a mutant of MapCell: the updates are applied to every cell
MapAllCells(cs, id, updates) == [i \in DOMAIN cs |-> updates @@ cs[i]]

\* state.cells.map(c => c.id === id ? { ...c, ...updates } : c)
MapCell(cs, id, updates) ==
    [i \in DOMAIN cs |-> IF cs[i].id = id THEN updates @@ cs[i] ELSE cs[i]]

updateCell(id, content) ==
    /\ cells' = MapCell(cells, id, [content |-> content])
    /\ UNCHANGED <<calls, handlers, workerPyodide, inbox, py, otherVars>>

deleteCell(id) ==
    /\ cells' = SelectSeq(cells, LAMBDA c : c.id # id)
    /\ UNCHANGED <<calls, handlers, workerPyodide, inbox, py, otherVars>>

\* the placeholder shown while the cell runs
RunningOutput == CellOutput(JString(<<"string">>), JString(<<"Running...">>))

\* executeCode up to its first await: the guard and the set of the placeholder
executeCode(id) ==
    /\ Len(calls) < MaxCalls
    /\ \E i \in DOMAIN cells :
          /\ cells[i].id = id
          /\ cells[i].type = "code"
          /\ Strip(cells[i].content) # <<>>
          /\ calls' = Append(calls, [id |-> id, code |-> cells[i].content, pc |-> "yield",
                                     request |-> 0, timer |-> "unset",
                                     \* history: the output the call's last set() carried,
                                     \* whether a cell had the id at that set(), and the
                                     \* calls for the same cell in flight at the start
                                     stored |-> JUndefined,
                                     found |-> FALSE,
                                     during |-> {d \in DOMAIN calls :
                                                   calls[d].id = id /\ calls[d].pc # "done"}])
    /\ cells' = MapCell(cells, id, [isExecuting |-> TRUE, output |-> RunningOutput])
    /\ UNCHANGED <<handlers, workerPyodide, inbox, py, otherVars>>

\* a message posted to the worker, waiting for its handler to start
Posted(type, id, code) ==
    [type |-> type, id |-> id, code |-> code, pc |-> "posted", k |-> 0,
     \* history: the result and error messages the handler posted, whether it
     \* called run_code and on which interpreter
     posts |-> <<>>, ran |-> FALSE, before |-> PyInit]

\* the setTimeout(resolve, 0) fires: executeCodeWithWorker posts the request
\* and the 30-second timer is armed; timers of equal delay fire in the order
\* they were set
executeCodeWithWorker(c) ==
    /\ calls[c].pc = "yield"
    /\ \A d \in 1..(c - 1) : calls[d].pc # "yield"
    /\ handlers' = Append(handlers, Posted("execute", Len(handlers) + 1, calls[c].code))
    /\ calls' = [calls EXCEPT ![c].pc = "race", ![c].request = Len(handlers) + 1,
                              ![c].timer = "armed"]
    /\ UNCHANGED <<cells, workerPyodide, inbox, py, otherVars>>

TimeoutMessage == <<"Execution timed out after 30 seconds">>

\* the message of the error thrown by the inner catch
ExecutionError(message) == <<"Execution error: ">> \o message

\* a mutant of catchOutput: the failure is stored as ordinary text
catchOutputAsText(message) == CellOutput(JString(<<"string">>), JString(message))

\* the output set by the outer catch for err.message
catchOutput(message) == CellOutput(JString(<<"error">>), JString(message))

\* a mutant of RaceIsPending: a settled race is settled again
RaceNeverSettled(call) == call.pc \in {"race", "done"}

\* Promise.race has not settled yet: the first of the reply and the timer wins
RaceIsPending(call) == call.pc = "race"

\* a mutant of settle: a cell that is gone is put back with the output
settleOrRestore(c, out, timer) ==
    /\ cells' = IF findIndex(cells, calls[c].id) # -1
                THEN MapCell(cells, calls[c].id, [output |-> out, isExecuting |-> FALSE])
                ELSE Append(cells, [id |-> calls[c].id, type |-> "code",
                                    content |-> calls[c].code, output |-> out,
                                    isExecuting |-> FALSE])
    /\ calls' = [calls EXCEPT ![c].pc = "done", ![c].timer = timer, ![c].stored = out,
                              ![c].found = findIndex(cells, calls[c].id) # -1]

\* the rest of executeCode after the race: the final set, or the catch's
settle(c, out, timer) ==
    /\ cells' = MapCell(cells, calls[c].id, [output |-> out, isExecuting |-> FALSE])
    /\ calls' = [calls EXCEPT ![c].pc = "done", ![c].timer = timer, ![c].stored = out,
                              ![c].found = findIndex(cells, calls[c].id) # -1]

\* the call a message of the worker answers, 0 when no call waits for it
WaitingCall(m) ==
    IF /\ m.type \in {"result", "error"}
       /\ m.id # 0
       /\ \E c \in DOMAIN calls : calls[c].request = m.id /\ RaceIsPending(calls[c])
    THEN CHOOSE c \in DOMAIN calls : calls[c].request = m.id /\ RaceIsPending(calls[c])
    ELSE 0

\* the page receives the worker's next message: a result resolves the call
\* that waits for its id, an error rejects it, anything else is dropped
onWorkerMessage ==
    /\ inbox # <<>>
    /\ inbox' = Tail(inbox)
    /\ LET m == Head(inbox)
           c == WaitingCall(m)
       IN  IF c # 0
           THEN settle(c,
                       IF m.type = "result" THEN normalizeOutput(m.data)
                       ELSE catchOutput(ExecutionError(m.data.s)),
                       calls[c].timer)
           ELSE UNCHANGED <<cells, calls>>
    /\ UNCHANGED <<handlers, workerPyodide, py, otherVars>>

\* a mutant of timerFires: the timer's rejection is not part of the race
timerUnraced(c) ==
    /\ calls[c].timer = "armed"
    /\ \A d \in 1..(c - 1) : calls[d].timer # "armed"
    /\ calls' = [calls EXCEPT ![c].timer = "fired"]
    /\ UNCHANGED <<cells, handlers, workerPyodide, inbox, py, otherVars>>

\* the 30-second timer of a call fires, after those armed before it
timerFires(c) ==
    /\ calls[c].timer = "armed"
    /\ \A d \in 1..(c - 1) : calls[d].timer # "armed"
    /\ IF RaceIsPending(calls[c])
       THEN settle(c, catchOutput(ExecutionError(TimeoutMessage)), "fired")
       ELSE /\ calls' = [calls EXCEPT ![c].timer = "fired"]
            /\ UNCHANGED cells
    /\ UNCHANGED <<handlers, workerPyodide, inbox, py, otherVars>>

\* a runtime as loadPyodide gives it: nothing loaded, nothing defined
FreshInterpreter == [PyInit EXCEPT !.modules = {}]

\* the handler h ends: the interpreter is py1, `messages` have been posted
endHandler(h, py1, ran, before, messages) ==
    /\ py' = py1
    /\ inbox' = inbox \o messages
    /\ handlers' = [handlers EXCEPT
                       ![h].pc = "done",
                       ![h].ran = ran,
                       ![h].before = IF ran THEN before ELSE @,
                       ![h].posts = @ \o SelectSeq(messages,
                                                   LAMBDA m : m.type \in {"result", "error"})]

\* the 'execute' case from the return of initializePyodide to the end of the
\* handler, in a worker w with interpreter p, after initializePyodide posted
\* `posted`: the second test of `pyodide`, run_code, the conversion, the
\* final sanitizeForPostMessage, the reply; an exception on the way is
\* answered by the outer catch
handlerEnd(h, w, p, posted) ==
    IF ~w.loaded
    THEN endHandler(h, p, FALSE, p,
                    Append(posted, ErrorMessage(<<"Failed to initialize Pyodide">>,
                                                handlers[h].id)))
    ELSE IF ~w.kernel
    THEN endHandler(h, p, FALSE, p,
                    Append(posted, ErrorMessage(<<"runCodeKernel is not a function">>,
                                                handlers[h].id)))
    ELSE \E r \in {run_code(p, handlers[h].code)} :
            IF r.raised
            THEN endHandler(h, r.py, TRUE, p,
                            Append(posted, ErrorMessage(<<"SystemExit">>, handlers[h].id)))
            ELSE \E finalOutput \in {sanitizeForPostMessage(convertResult(r.result))} :
                    endHandler(h, r.py, TRUE, p,
                               Append(posted, ResultMessage(finalOutput, handlers[h].id)))

\* the worker's message event for the next message: with a runtime the handler
\* runs to its end, without one it calls loadPyodide and waits
onmessage(h) ==
    /\ handlers[h].pc = "posted"
    /\ \A g \in 1..(h - 1) : handlers[g].pc # "posted"
    /\ IF workerPyodide.loaded
       THEN handlerEnd(h, workerPyodide, py, <<>>)
       ELSE /\ handlers' = [handlers EXCEPT ![h].pc = "loading"]
            /\ UNCHANGED <<inbox, py>>
    /\ UNCHANGED <<cells, calls, workerPyodide, otherVars>>

\* loadPyodide settles for a handler inside initializePyodide
loadPyodide(h, ok) ==
    /\ handlers[h].pc = "loading"
    /\ ok \/ workerPyodide.failures < MaxFailures
    /\ IF ok
       THEN /\ workerPyodide' = [workerPyodide EXCEPT
                                    !.loaded = TRUE, !.kernel = FALSE, !.dirs = {},
                                    !.instances = @ + 1]
            /\ py' = FreshInterpreter
            /\ handlers' = [handlers EXCEPT ![h].pc = "packages", ![h].k = 1]
            /\ UNCHANGED inbox
       ELSE /\ workerPyodide' = [workerPyodide EXCEPT !.failures = @ + 1]
            /\ handlerEnd(h, workerPyodide, py, <<InitErrorMessage(<<"Failed to fetch">>)>>)
    /\ UNCHANGED <<cells, calls, otherVars>>

\* pyodide.loadPackage settles for the k-th package of the list; after the
\* last one the rest of initializePyodide runs: KERNEL_CODE, which imports
\* matplotlib, the directories, 'ready'
loadPackage(h, ok) ==
    /\ handlers[h].pc = "packages"
    /\ ok \/ workerPyodide.failures < MaxFailures
    /\ LET k == handlers[h].k
           p == IF ok THEN [py EXCEPT !.modules = @ \cup {workerPackages[k]}] ELSE py
           w == IF ok THEN workerPyodide ELSE [workerPyodide EXCEPT !.failures = @ + 1]
       IN  IF k < Len(workerPackages)
           THEN /\ py' = p
                /\ workerPyodide' = w
                /\ handlers' = [handlers EXCEPT ![h].k = k + 1]
                /\ UNCHANGED inbox
           ELSE IF "matplotlib" \in p.modules
           THEN /\ workerPyodide' = [w EXCEPT
                                        !.kernel = TRUE,
                                        !.dirs = {"/content", "/mnt", "/mnt/content"}]
                /\ handlerEnd(h, [w EXCEPT !.kernel = TRUE], p, <<ReadyMessage>>)
           ELSE /\ workerPyodide' = w
                /\ handlerEnd(h, w, p,
                              <<InitErrorMessage(<<"No module named 'matplotlib'">>)>>)
    /\ UNCHANGED <<cells, calls, otherVars>>

NotebookNext ==
    \/ \E i \in DOMAIN cells, content \in CellSources :
          cells[i].content = SampleCode /\ updateCell(cells[i].id, content)
    \/ \E i \in DOMAIN cells : cells[i].type = "code" /\ deleteCell(cells[i].id)
    \/ \E i \in DOMAIN cells : executeCode(cells[i].id)
    \/ \E c \in DOMAIN calls : executeCodeWithWorker(c)
    \/ onWorkerMessage
    \/ \E c \in DOMAIN calls : timerFires(c)
    \/ \E h \in DOMAIN handlers : onmessage(h)
    \/ \E h \in DOMAIN handlers, ok \in BOOLEAN : loadPyodide(h, ok)
    \/ \E h \in DOMAIN handlers, ok \in BOOLEAN : loadPackage(h, ok)

Next == NotebookNext


Spec == Init /\ [][Next]_vars

(***************************************************************************)
(* The cell list: addCell, moveCell and the conversion of a cell, next to  *)
(* the store's other actions and the executions, in a notebook whose       *)
(* worker has answered the page's 'init' message with 'ready'.  Indices    *)
(* are JavaScript's: they start at 0.                                      *)
(***************************************************************************)
\* the ids uuidv4() hands out, in order
Uuid(n) == <<"c1", "c2", "c3", "c4", "c5", "c6">>[n]

CellTypes == {"code", "markdown"}

\* the text typed into a cell of the list
CellEdits == {Line("warn", 1)}

\* the cell addCell creates
NewCell(id, type) ==
    Cell(id, type, IF type = "code" THEN <<>> ELSE <<"New Markdown...">>)

\* the start index of Array.prototype.splice: a negative one counts from the
\* end, and the result is clamped to the array
SpliceStart(cs, start) ==
    IF start < 0
    THEN (IF Len(cs) + start < 0 THEN 0 ELSE Len(cs) + start)
    ELSE (IF start > Len(cs) THEN Len(cs) ELSE start)

\* the array after splice(start, 1)
SpliceRest(cs, start) ==
    SubSeq(cs, 1, SpliceStart(cs, start)) \o SubSeq(cs, SpliceStart(cs, start) + 2, Len(cs))

\* what splice(start, 1) returns
SpliceRemoved(cs, start) ==
    SubSeq(cs, SpliceStart(cs, start) + 1, SpliceStart(cs, start) + 1)

\* the array after splice(start, 0, item)
SpliceInsert(cs, start, item) ==
    SubSeq(cs, 1, SpliceStart(cs, start)) \o <<item>>
        \o SubSeq(cs, SpliceStart(cs, start) + 1, Len(cs))

\* the cells addCell sets; aboveCellId is "" for null
AddCell(cs, newCell, aboveCellId) ==
    IF aboveCellId = ""
    THEN Append(cs, newCell)
    ELSE IF findIndex(cs, aboveCellId) = -1
    THEN Append(cs, newCell)
    ELSE SpliceInsert(cs, findIndex(cs, aboveCellId) + 1, newCell)

addCell(type, aboveCellId) ==
    /\ uuids < MaxUuids
    /\ uuids' = uuids + 1
    /\ cells' = AddCell(cells, NewCell(Uuid(uuids + 1), type), aboveCellId)
    /\ UNCHANGED <<calls, handlers, workerPyodide, inbox, py, restVars>>

\* the cells after moveCell
MoveCell(cs, id, direction) ==
    LET index == findIndex(cs, id)
    IN  IF \/ direction = "up" /\ index <= 0
           \/ direction = "down" /\ index >= Len(cs) - 1
        THEN cs
        ELSE SpliceInsert(SpliceRest(cs, index),
                          IF direction = "up" THEN index - 1 ELSE index + 1,
                          SpliceRemoved(cs, index)[1])

moveCell(id, direction) ==
    /\ cells' = MoveCell(cells, id, direction)
    /\ UNCHANGED <<calls, handlers, workerPyodide, inbox, py, otherVars>>

\* handleConvertCell of the notebook component; `snapshot` is the `cells` of
\* the render the handler was created in, which the store's set() calls do
\* not change
handleConvertCell(targetType, cellId, content) ==
    /\ uuids < MaxUuids
    /\ uuids' = uuids + 1
    /\ LET snapshot == cells
           cellIndex == findIndex(snapshot, cellId)
           prevCellId == IF cellIndex > 0 THEN snapshot[cellIndex].id ELSE ""
           deleted == SelectSeq(cells, LAMBDA c : c.id # cellId)
           added == AddCell(deleted, NewCell(Uuid(uuids + 1), targetType), prevCellId)
           newCellIndex == IF prevCellId # "" THEN findIndex(snapshot, prevCellId) + 1 ELSE 0
       IN  cells' = IF newCellIndex < Len(snapshot)
                    THEN MapCell(added, snapshot[newCellIndex + 1].id, [content |-> content])
                    ELSE added
    /\ UNCHANGED <<calls, handlers, workerPyodide, inbox, py, restVars>>

\* the worker once initializePyodide has run to 'ready'
ReadyRuntime ==
    [loaded |-> TRUE, kernel |-> TRUE, dirs |-> {"/content", "/mnt", "/mnt/content"},
     instances |-> 1, failures |-> 0]

CellsInit ==
    /\ HostInit
    /\ StoreInit
    /\ KernelInit
    /\ NormInit
    /\ PostInit
    /\ cells = <<Cell(Uuid(1), "markdown", <<"# Welcome to PyNote!">>),
                 Cell(Uuid(2), "code", SampleCode)>>
    /\ calls = <<>>
    /\ handlers = <<>>
    /\ workerPyodide = ReadyRuntime
    /\ inbox = <<>>
    /\ uuids = 2

CellsNext ==
    \/ \E type \in CellTypes, i \in DOMAIN cells : addCell(type, cells[i].id)
    \/ \E type \in CellTypes : addCell(type, "")
    \/ \E i \in DOMAIN cells : deleteCell(cells[i].id)
    \/ \E n \in 1..uuids, direction \in {"up", "down"} : moveCell(Uuid(n), direction)
    \/ \E i \in DOMAIN cells, content \in CellEdits :
          cells[i].content \notin CellEdits /\ updateCell(cells[i].id, content)
    \/ \E i \in DOMAIN cells, type \in CellTypes :
          type # cells[i].type /\ handleConvertCell(type, cells[i].id, cells[i].content)
    \/ \E i \in DOMAIN cells : executeCode(cells[i].id)
    \/ \E c \in DOMAIN calls : executeCodeWithWorker(c)
    \/ onWorkerMessage
    \/ \E c \in DOMAIN calls : timerFires(c)
    \/ \E h \in DOMAIN handlers : onmessage(h)

SpecCells == CellsInit /\ [][CellsNext]_vars

\* the browser runs the callback of every timer that was set: the
\* setTimeout(resolve, 0) of the yield and the 30-second timer of the race
TimersFire ==
    \A c \in 1..MaxCalls :
        /\ WF_vars(c \in DOMAIN calls /\ executeCodeWithWorker(c))
        /\ WF_vars(c \in DOMAIN calls /\ timerFires(c))

SpecCellsFair == SpecCells /\ TimersFire

(***************************************************************************)
(* Claims about the interpreter host.                                      *)
(***************************************************************************)

\* C1: however many getPyodide() calls are made, at most one engine load is
\* ever started, and every call, whether made while the load is pending or
\* after it has settled, returns the one memoised promise.
C1_SingleLoad ==
    /\ LoadsStarted <= 1
    /\ Len(loads) <= 1
    /\ \A i \in DOMAIN acquired : acquired[i].promise = 1

\* C1 witness: three calls, one answered while loading and one when ready
C1_Witness ==
    /\ Len(acquired) >= 3
    /\ \E i \in DOMAIN acquired : acquired[i].at = "pending"
    /\ \E i \in DOMAIN acquired : acquired[i].at = "fulfilled"

\* C2: after a failed initialization the next getPyodide() call retries the
\* load from scratch: no call is answered with the promise of a load that
\* has already failed.
C2_RetryAfterFailure ==
    \A i \in DOMAIN acquired : acquired[i].at # "rejected"

(***************************************************************************)
(* Claims about the execution wrapper.                                     *)
(***************************************************************************)
\* the statements of a source text that compiles
StatementsOf(code) ==
    [i \in DOMAIN SplitLines(code) |-> Statements[Parse(SplitLines(code)[i])]]

Compiles(code) == \A i \in DOMAIN SplitLines(code) : Parse(SplitLines(code)[i]) # 0

BindsName(st, name) == st.kind \in {"assign", "def", "bump"} /\ st.var = name

\* a single record {type, data} as run_code hands it to JavaScript
RecordMap(type, data) == to_js(PyRecord(type, PyText(data)))

\* the entry for the trailing expression: the record itself, or the last of a list
LastEntry(v) == IF v.tag = "Array" THEN v.items[Len(v.items)] ELSE v

\* C6: the namespace persists across run_code calls.  A call that binds no
\* name leaves every binding as it found it; a name assigned by the first
\* line of a call and not bound again in that call keeps that value after the
\* call, also when a later line raises; and a bare name as the whole source
\* yields, as the entry for the trailing expression, a text record with the
\* string form of the value an earlier call bound.
C6_NamespacePersists ==
    lastCall.ran /\ Compiles(lastCall.code) =>
        LET sts == StatementsOf(lastCall.code)
        IN  /\ \A name \in GlobalNames :
                 (\A i \in DOMAIN sts : ~BindsName(sts[i], name))
                     => py.globals[name] = lastCall.before.globals[name]
            /\ (sts[1].kind = "assign"
                  /\ \A i \in DOMAIN sts : i > 1 => ~BindsName(sts[i], sts[1].var))
                     => py.globals[sts[1].var] = PyInt(sts[1].val)
            /\ (Len(sts) = 1 /\ sts[1].kind = "name"
                  /\ lastCall.before.globals[sts[1].var].t = "int")
                     => LastEntry(LastRun.result) =
                          RecordMap("text", StrNat(lastCall.before.globals[sts[1].var].n))

\* C6 witness: `x = 5`, then anything that raises after binding, then bare `x`
\* gives "5"
C6_Witness ==
    /\ lastCall.ran
    /\ lastCall.code = Line("name", 0)
    /\ lastCall.before.globals["x"] = PyInt(5)
    /\ LastRun.result = RecordMap("text", <<"5">>)

\* C7: whenever the source raises or writes to the standard-error buffer,
\* run_code returns exactly one error record and none of the collected
\* entries.
RaisesOrWarns(before, code) ==
    LET r == exec([py |-> before, out |-> <<>>, err |-> <<>>, exc |-> "", msg |-> <<>>], code)
    IN  r.exc # "" \/ r.err # <<>>

IsErrorRecordMap(v) ==
    /\ v.tag = "Map"
    /\ Get(v.entries, "type") = JString(<<"error">>)
    /\ Get(v.entries, "data").tag = "string"

C7_ErrorPrecedence ==
    lastCall.ran
    /\ RaisesOrWarns([lastCall.before EXCEPT !.stderr = "error_output"], lastCall.code)
        => ~LastRun.raised /\ IsErrorRecordMap(LastRun.result)

\* C8: on the non-error path the entries are in presentation order (stdout
\* text, then the image, then the trailing expression), more than one entry
\* is returned as the ordered list, exactly one directly, and none as a text
\* record with empty payload.
PresentationOrder(o) ==
    /\ Len(o) <= 3
    /\ \A i \in DOMAIN o :
         /\ o[i].type = "image" => i <= 2 /\ \A j \in 1..(i - 1) : o[j].type = "text"
         /\ o[i].type = "html" => i = Len(o)
         /\ o[i].type \in {"text", "image", "html"}
    /\ Len(o) = 3 => o[2].type = "image"

C8_ReturnPolicy ==
    lastCall.ran /\ ~LastRun.raised /\ ~IsErrorRecordMap(LastRun.result) =>
        LET o == LastRun.outputs
        IN  /\ PresentationOrder(o)
            /\ Len(o) > 1 =>
                 /\ LastRun.result.tag = "Array"
                 /\ Len(LastRun.result.items) = Len(o)
                 /\ \A i \in DOMAIN o :
                      LastRun.result.items[i] = to_js(o[i])
            /\ Len(o) = 1 => LastRun.result = to_js(o[1])
            /\ Len(o) = 0 => LastRun.result = RecordMap("string", <<>>)

\* C8 witness: print, plot and a trailing expression in one source
C8_Witness ==
    /\ lastCall.ran
    /\ ~LastRun.raised
    /\ LastRun.result.tag = "Array"
    /\ Len(LastRun.result.items) = 3
    /\ LastRun.result.items[1] = RecordMap("text", <<"5">>)
    /\ Get(LastRun.result.items[2].entries, "type") = JString(<<"image">>)
    /\ LastRun.result.items[3] = RecordMap("text", <<"5">>)

(***************************************************************************)
(* Claims about the output normalizer.                                     *)
(***************************************************************************)
\* a value with a kind field and a payload field
HasKindAndPayload(v) ==
    v.tag = "object" /\ HasKey(v.entries, "type") /\ HasKey(v.entries, "data")

\* the tags that stand for the text kind: OutputPanel renders 'string' and
\* 'text' alike
TextKinds == {<<"string">>, <<"text">>}

\* a text record with the given payload
IsTextRecord(v, payload) ==
    /\ v.tag = "object"
    /\ Len(v.entries) = 2
    /\ Get(v.entries, "type").tag = "string"
    /\ Get(v.entries, "type").s \in TextKinds
    /\ Get(v.entries, "data") = payload

\* the ordered, first-match-wins reference, as a relation between a raw value
\* and the normalizer's result
MatchesReference(v, out) ==
    IF v.tag = "Array"
    THEN IF \A i \in DOMAIN v.items : HasKindAndPayload(v.items[i])
         THEN out = v
         ELSE IsTextRecord(out, JSON_stringify(v))
    ELSE IF HasKindAndPayload(v) THEN out = v
    ELSE IF v.tag = "Map" THEN out.tag = "object" /\ out.entries = v.entries
    ELSE IF v.tag \in {"object", "Set"} THEN IsTextRecord(out, JSON_stringify(v))
    ELSE IF v.tag = "undefined" THEN IsTextRecord(out, JString(<<>>))
    ELSE IsTextRecord(out, JString(StringOf(v)))

\* C10: for every raw value that is an array, a record, an associative map,
\* another object or a primitive, the normalizer's result is the one of the
\* ordered first-match-wins reference.  (Proxies are the subject of C11.)
C10_NormalizerMatchesReference ==
    output.tag # "unset" /\ outputFromPython.tag # "PyProxy"
        => MatchesReference(outputFromPython, output)

\* C10 witness: an array with an invalid element has been wrapped as text
C10_Witness ==
    /\ output.tag # "unset"
    /\ outputFromPython.tag = "Array"
    /\ Len(outputFromPython.items) = 2
    /\ HasKindAndPayload(outputFromPython.items[1])
    /\ ~HasKindAndPayload(outputFromPython.items[2])
    /\ IsTextRecord(output, JSON_stringify(outputFromPython))

(***************************************************************************)
(* Claims about the channel: the race against the timer, the worker's      *)
(* replies, and what executeCode stores.                                   *)
(***************************************************************************)
\* the cells that carry the id of a call
CellsOf(cs, c) == {i \in DOMAIN cs : cs[i].id = calls[c].id}

\* the record a timed-out execution leaves on its cell
TimeoutRecord ==
    JObject(<<Entry("type", JString(<<"error">>)),
              Entry("data", JString(<<"Execution error: ",
                                      "Execution timed out after 30 seconds">>))>>)

\* the page takes the next message of the worker in this step
Delivers == inbox # <<>> /\ inbox' = Tail(inbox)

\* C3: when the timer of a call fires before the reply, the call ends and its
\* cell gets the error record with the fixed timeout message; a reply for a
\* request whose call has ended changes no cell; a timer that fires after the
\* reply settled the call changes no cell.
C3_TimeoutRace ==
    [][/\ \A c \in DOMAIN calls :
            calls[c].timer = "armed" /\ calls'[c].timer = "fired" =>
                IF calls[c].pc = "race"
                THEN /\ calls'[c].pc = "done"
                     /\ \A i \in DOMAIN cells' :
                          IF i \in CellsOf(cells', c)
                          THEN cells'[i].output = TimeoutRecord /\ ~cells'[i].isExecuting
                          ELSE cells'[i] = cells[i]
                ELSE cells' = cells
       /\ (Delivers /\ \E c \in DOMAIN calls :
                          calls[c].request = Head(inbox).id /\ calls[c].pc = "done")
            => cells' = cells]_vars

\* C3 witness: a call timed out, its cell shows the timeout record, and the
\* worker's reply to its request came later and has been delivered
C3_Witness ==
    \E c \in DOMAIN calls :
        /\ calls[c].pc = "done"
        /\ calls[c].timer = "fired"
        /\ handlers[calls[c].request].posts # <<>>
        /\ handlers[calls[c].request].posts[1].type = "result"
        /\ inbox = <<>>
        /\ \E i \in CellsOf(cells, c) : cells[i].output = TimeoutRecord

\* C4: a handler of an 'execute' message posts, by its end, exactly one
\* message of type 'result' or 'error', with the id of the request, and none
\* before.
C4_ExactlyOneReply ==
    \A h \in DOMAIN handlers :
        IF handlers[h].pc = "done"
        THEN /\ Len(handlers[h].posts) = 1
             /\ handlers[h].posts[1].id = handlers[h].id
        ELSE handlers[h].posts = <<>>

\* an error-kind record
IsErrorRecord(v) ==
    /\ v.tag = "object"
    /\ Get(v.entries, "type") = JString(<<"error">>)
    /\ Get(v.entries, "data").tag = "string"

\* the user code of request h raised or wrote to the diagnostic stream
UserCodeFailed(h) ==
    /\ handlers[h].ran
    /\ RaisesOrWarns([handlers[h].before EXCEPT !.stdout = "output",
                                                 !.stderr = "error_output"],
                     handlers[h].code)

\* the race of call c is settled in this step by a failure
SettledByFailure(c) ==
    \/ calls[c].timer = "armed" /\ calls'[c].timer = "fired"
    \/ /\ Delivers
       /\ Head(inbox).id = calls[c].request
       /\ \/ Head(inbox).type = "error"
          \/ Head(inbox).type = "result" /\ UserCodeFailed(calls[c].request)

\* C5: a call that waits in the race always ends by a store update, and when
\* it ends by a failure (timeout, error reply, or a result of user code that
\* raised or wrote to the diagnostic stream) its cell gets an error-kind
\* record and stops executing.
C5_FailuresBecomeErrorRecords ==
    [][\A c \in DOMAIN calls :
          calls[c].pc = "race" /\ calls'[c].pc # "race" =>
              /\ calls'[c].pc = "done"
              /\ SettledByFailure(c) =>
                    \A i \in CellsOf(cells', c) :
                        IsErrorRecord(cells'[i].output) /\ ~cells'[i].isExecuting]_vars

\* C5 witness: the first call ended with the error record of user code that
\* wrote to the diagnostic stream, and a later call has run and ended with a
\* result
C5_Witness ==
    /\ Len(calls) = 2
    /\ calls[1].pc = "done" /\ calls[2].pc = "done"
    /\ calls[1].request < calls[2].request
    /\ UserCodeFailed(calls[1].request)
    /\ handlers[calls[1].request].posts[1].type = "result"
    /\ handlers[calls[2].request].ran
    /\ ~UserCodeFailed(calls[2].request)
    /\ calls[2].timer = "armed"
    /\ \E i \in CellsOf(cells, 2) : ~IsErrorRecord(cells[i].output)

\* the kinds of an output record; 'string' and 'text' are both the text kind
OutputKinds == {<<"string">>, <<"text">>, <<"html">>, <<"image">>, <<"error">>}

\* an output record: a kind of the closed set and a string payload
IsOutputRecord(v) ==
    /\ v.tag = "object"
    /\ Len(v.entries) = 2
    /\ Get(v.entries, "type").tag = "string"
    /\ Get(v.entries, "type").s \in OutputKinds
    /\ Get(v.entries, "data").tag = "string"

\* C9: every output stored on a cell is one output record or a list of
\* output records.
C9_StoredOutputsCanonical ==
    \A i \in DOMAIN cells :
        \/ cells[i].output = JUndefined
        \/ IsOutputRecord(cells[i].output)
        \/ /\ cells[i].output.tag = "Array"
           /\ \A j \in DOMAIN cells[i].output.items :
                IsOutputRecord(cells[i].output.items[j])

(***************************************************************************)
(* Claims about the normalizer's treatment of proxies and of its own       *)
(* results.                                                                *)
(***************************************************************************)
\* one output record, or a list of output records
IsCanonical(v) ==
    \/ IsOutputRecord(v)
    \/ v.tag = "Array" /\ \A j \in DOMAIN v.items : IsOutputRecord(v.items[j])

\* C11: for a raw value that is a proxy, the normalizer's result is the same
\* normalization applied to what the proxy's conversion yields (the handle is
\* destroyed right after the conversion), so it is a record with a kind and a
\* payload, or a list of such records, also when the conversion yields an
\* associative map, an array or a primitive.
C11_ProxyRenormalized ==
    output.tag # "unset" /\ outputFromPython.tag = "PyProxy" =>
        /\ output = normalizeOutput(outputFromPython.target)
        /\ \/ HasKindAndPayload(output)
           \/ output.tag = "Array" /\ \A j \in DOMAIN output.items :
                                          HasKindAndPayload(output.items[j])

\* C12: an output record, or a list of output records, goes through the
\* normalizer unchanged, and the normalizer applied to its own result gives
\* that result again.
C12_Idempotent ==
    output.tag # "unset" =>
        /\ IsCanonical(outputFromPython) => output = outputFromPython
        /\ normalizeOutput(output) = output

(***************************************************************************)
(* Claims about the worker's reply.                                        *)
(***************************************************************************)
\* the value is, or holds at some depth, a Map or a Set
RECURSIVE HasMapOrSet(_)
HasMapOrSet(v) ==
    CASE v.tag \in {"Map", "Set"} -> TRUE
      [] v.tag = "object" -> \E i \in DOMAIN v.entries : HasMapOrSet(v.entries[i].v)
      [] v.tag = "Array" -> \E i \in DOMAIN v.items : HasMapOrSet(v.items[i])
      [] OTHER -> FALSE

\* C13: the payload of every result message the worker posts holds no Map and
\* no Set at any depth, and sanitizing it once more changes nothing.
C13_PostedResultsSanitized ==
    reply.type = "result" =>
        /\ ~HasMapOrSet(reply.data)
        /\ sanitizeForPostMessage(reply.data) = reply.data

\* C13 witness: a Map whose payload is a Map holding a Set came back from
\* run_code, and went out as an object holding an object holding a list
C13_Witness ==
    /\ kernelResult = JMap(<<Entry("type", JString(<<"text">>)),
                             Entry("data", JMap(<<Entry("a", JSet(<<JNumber(1)>>))>>))>>)
    /\ reply = ResultMessage(
                   JObject(<<Entry("type", JString(<<"text">>)),
                             Entry("data", JObject(<<Entry("a", JArray(<<JNumber(1)>>))>>))>>),
                   1)

(***************************************************************************)
(* Claims about the streams, the figure and the trailing line of run_code. *)
(***************************************************************************)
\* the run as run_code starts it on an interpreter: streams redirected, empty
\* buffers
Redirected(before) ==
    [py |-> [before EXCEPT !.stdout = "output", !.stderr = "error_output"],
     out |-> <<>>, err |-> <<>>, exc |-> "", msg |-> <<>>]

\* C14: after every run_code call, whether it returned entries, returned an
\* error record or let an exception escape, sys.stdout and sys.stderr are the
\* original streams.
C14_StreamsRestored ==
    /\ py.stdout = "__stdout__"
    /\ py.stderr = "__stderr__"
    /\ lastCall.ran =>
          /\ LastRun.py.stdout = "__stdout__"
          /\ LastRun.py.stderr = "__stderr__"

\* C14 witness: a call whose exception escaped run_code has ended, and an
\* earlier part of the same source had written to the redirected stdout
C14_Witness ==
    /\ lastCall.ran
    /\ LastRun.raised
    /\ exec(Redirected(lastCall.before), lastCall.code).out # <<>>
    /\ py.stdout = "__stdout__"
    /\ py.stderr = "__stderr__"

\* the value returned is, or holds, an image entry
HasImage(v) ==
    \/ v.tag = "Map" /\ Get(v.entries, "type") = JString(<<"image">>)
    \/ v.tag = "Array" /\ \E i \in DOMAIN v.items :
                             Get(v.items[i].entries, "type") = JString(<<"image">>)

\* the source, run on the interpreter with a clean figure, draws on the figure
Draws(before, code) ==
    exec(Redirected([before EXCEPT !.figure = FALSE]), code).py.figure

\* C15: a run_code call returns an image entry only if its own source drew on
\* the figure, whatever the earlier calls did.
C15_NoFigureLeak ==
    lastCall.ran /\ ~LastRun.raised /\ HasImage(LastRun.result)
        => Draws(lastCall.before, lastCall.code)

\* the last non-blank line of a source text, stripped
LastLine(code) ==
    LET lines == SplitLines(Strip(code))
    IN  Strip(lines[Len(lines)])

HasStatementPrefix(line) == \E p \in StatementPrefixes : StartsWith(line, p)

\* the source compiles, runs without an exception and writes nothing to stderr
ExecSucceeds(before, code) ==
    LET r == exec(Redirected(before), code)
    IN  r.exc = "" /\ Strip(r.err) = <<>>

\* the interpreter and the entries after the try block of a successful source
Collected(before, code) ==
    LET c == CollectOutputs(exec(Redirected(before), code))
    IN  [py |-> [c.py EXCEPT !.stdout = "__stdout__", !.stderr = "__stderr__"],
         outputs |-> c.outputs]

OnlyAssigns(code) ==
    /\ Compiles(code)
    /\ \A i \in DOMAIN StatementsOf(code) : StatementsOf(code)[i].kind = "assign"

\* what the page stores for a value returned by run_code
Stored(result) == normalizeOutput(sanitizeForPostMessage(convertResult(result)))

\* C16: when the last non-blank line of a successful source starts with one
\* of the statement prefixes, the line is not evaluated: the interpreter and
\* the entries are those left by the try block.  When in addition, or for a
\* source made of assignments only, the try block collected no entry, no
\* entry is produced and the result is a text record with empty payload.
C16_StatementLinesNotEvaluated ==
    lastCall.ran /\ ExecSucceeds(lastCall.before, lastCall.code) =>
        LET c == Collected(lastCall.before, lastCall.code)
            statement == HasStatementPrefix(LastLine(lastCall.code))
        IN  /\ statement => LastRun.py = c.py /\ LastRun.outputs = c.outputs
            /\ (statement \/ OnlyAssigns(lastCall.code)) /\ c.outputs = <<>> =>
                  /\ ~LastRun.raised
                  /\ LastRun.outputs = <<>>
                  /\ LastRun.result = RecordMap("string", <<>>)
                  /\ IsTextRecord(Stored(LastRun.result), JString(<<>>))

\* C16 witness: `def f(): pass` has run on an interpreter where x is bound,
\* and gave the empty text record
C16_Witness ==
    /\ lastCall.ran
    /\ lastCall.code = Line("def", 0)
    /\ lastCall.before.globals["x"] = PyInt(5)
    /\ py.globals["f"] = PyFunction
    /\ LastRun.result = RecordMap("string", <<>>)

\* the line is an expression of the catalog
IsExpressionLine(line) ==
    Parse(line) # 0 /\ Statements[IF Parse(line) = 0 THEN 1 ELSE Parse(line)].kind \in ExpressionKinds

\* the trailing line evaluated on the interpreter the try block left
TrailingValue(before, code) ==
    eval([py |-> Collected(before, code).py, out |-> <<>>, err |-> <<>>, exc |-> "",
          msg |-> <<>>],
         LastLine(code))

\* the entry for a value: html from its to_html when it has one, else the text
\* of its string form
EntryFor(value) ==
    IF value.t = "T"
    THEN PyRecord("html", IF value.n = 0 THEN PyText(<<"<b>">>) ELSE PyInt(value.n))
    ELSE PyRecord("text", PyText(PyStr(value)))

\* the call ended without an exception and without an error record
NoError == ~LastRun.raised /\ ~IsErrorRecordMap(LastRun.result)

C18_PrintGivesSingleText ==
    (/\ lastCall.ran
     /\ lastCall.code = Line("print", 0)
     /\ lastCall.before.globals["x"] # Unbound)
        => LastRun.result = RecordMap("text", Strip(PyStr(lastCall.before.globals["x"])))

(***************************************************************************)
(* Claims about the preload list and the Ready mark of the main thread's   *)
(* loader.                                                                 *)
(***************************************************************************)
\* C19: no load of the runtime ends as failed because a package of the
\* preload list failed to load: such a failure is logged and the load goes on
\* to the next package, the bootstrap and Ready.
C19_PackageFailureTolerated ==
    \A i \in DOMAIN loads : loads[i].pc = "failed" => loads[i].failure # "package"

\* C20: once the session is marked Ready (the Ready status, the kernel-ready
\* flag, or the promise of a load fulfilled), a load has loaded the engine
\* and run to its end, and the directories /mnt and /content exist.
C20_ReadyAfterDirectories ==
    (\/ isKernelReady
     \/ status \in {"Ready", "Python kernel ready."}
     \/ \E i \in DOMAIN loads : PromiseState(i) = "fulfilled")
        => /\ \E i \in DOMAIN loads : loads[i].started /\ loads[i].pc = "done"
           /\ {"/mnt", "/content"} \subseteq FS

(***************************************************************************)
(* Claims about the installation of a package.                             *)
(***************************************************************************)
\* the session is Ready: the load has completed and the store knows it
SessionReady ==
    /\ pyodide # 0
    /\ isPyodideInitialized
    /\ isKernelReady
    /\ pyodideReadyPromise # 0
    /\ PromiseState(pyodideReadyPromise) = "fulfilled"

\* C21: no step of installPackage corrupts the session.  A session that is
\* Ready stays Ready through every step of an install, successful or not;
\* the cells, the pending executions and the runtime that executes them are
\* left as they were; and an install that fails writes the status
\* "Error installing '<name>': <message>", naming the package and the cause.
C21_InstallKeepsSession ==
    [][installs' # installs =>
          /\ SessionReady => SessionReady'
          /\ UNCHANGED <<py, notebookVars, isKernelReady, pyodide, isPyodideInitialized, FS>>
          /\ \A j \in DOMAIN installs :
                installs[j].pc # "failed" /\ installs'[j].pc = "failed" =>
                   /\ installs'[j].message # ""
                   /\ status' = "Error installing '" \o installs[j].name \o "': "
                                    \o installs'[j].message]_vars

\* C21 witness: with the session Ready, one install has failed and its
\* failure is what the status shows
C21_Witness ==
    /\ SessionReady
    /\ \E j \in DOMAIN installs :
          /\ installs[j].pc = "failed"
          /\ installs[j].message = "Can't find a pure Python 3 wheel for 'nosuchpkg'"
          /\ status = "Error installing 'nosuchpkg': " \o installs[j].message

(***************************************************************************)
(* Claims about the executions and the cell list.                          *)
(***************************************************************************)
\* the calls a step starts or advances
SteppedCalls ==
    {c \in DOMAIN calls' : c \notin DOMAIN calls \/ calls'[c] # calls[c]}

\* C22: a step of executeCode (its start, the posting of the request, the
\* final set, the catch) changes only the output and isExecuting fields of
\* the cell whose id it was called with: the number and order of the cells,
\* every id, type and content, and every other cell stay as they are; and a
\* call goes beyond its guard only for a code cell with non-blank content.
C22_ExecutionFrame ==
    [][calls' # calls =>
          /\ Len(cells') = Len(cells)
          /\ \A i \in DOMAIN cells :
                /\ cells'[i].id = cells[i].id
                /\ cells'[i].type = cells[i].type
                /\ cells'[i].content = cells[i].content
                /\ cells'[i] # cells[i] =>
                      \E c \in SteppedCalls : calls'[c].id = cells[i].id
          /\ Len(calls') > Len(calls) =>
                \E i \in DOMAIN cells :
                   /\ cells[i].id = calls'[Len(calls')].id
                   /\ cells[i].type = "code"
                   /\ Strip(cells[i].content) # <<>>]_vars

\* C22 witness: an execution has stored its output on its cell, among three
\* cells of which another one is a blank code cell
C22_Witness ==
    /\ Len(cells) = 3
    /\ \E c \in DOMAIN calls, i \in DOMAIN cells :
          /\ calls[c].pc = "done"
          /\ cells[i].id = calls[c].id
          /\ cells[i].output = calls[c].stored
          /\ cells[i].content = calls[c].code
    /\ \E i \in DOMAIN cells : cells[i].type = "code" /\ cells[i].content = <<>>

\* C23: last call wins.  When a call for a cell starts while an earlier call
\* for the same cell is still in flight, then, once both have completed or
\* timed out, the output on the cell is the one the later call stored.
C23_LastCallWins ==
    \A c \in DOMAIN calls, d \in DOMAIN calls, i \in DOMAIN cells :
        (/\ d \in calls[c].during
         /\ calls[c].pc = "done"
         /\ calls[d].pc = "done"
         /\ cells[i].id = calls[c].id)
        => cells[i].output = calls[c].stored

\* C24: the worker creates at most one runtime.  When a message arrives
\* while an earlier handler is still awaiting the engine load, no second
\* engine load is started, so the runtime `pyodide` points to, with its
\* global namespace, is never replaced by a second instance.
C24_SingleWorkerRuntime ==
    /\ workerPyodide.instances <= 1
    /\ Cardinality({h \in DOMAIN handlers : handlers[h].pc = "loading"}) <= 1

\* C25: the final set of a call reaches the cell that has the call's id and
\* no other, wherever that cell now is in the list; when no cell has the id
\* any more, the cells stay exactly as they are.
C25_ResultOnTriggeringCell ==
    [][\A c \in DOMAIN calls :
          calls[c].pc # "done" /\ calls'[c].pc = "done" =>
             /\ Len(cells') = Len(cells)
             /\ \A i \in DOMAIN cells :
                   cells'[i] = IF cells[i].id = calls[c].id
                               THEN [cells[i] EXCEPT !.output = calls'[c].stored,
                                                     !.isExecuting = FALSE]
                               ELSE cells[i]]_vars

\* C25 witness: one call found its cell deleted; another has stored its
\* output on a cell that was added below the first cell and moved above it
C25_Witness ==
    /\ \E c \in DOMAIN calls :
          /\ calls[c].pc = "done"
          /\ ~calls[c].found
          /\ \A i \in DOMAIN cells : cells[i].id # calls[c].id
    /\ \E c \in DOMAIN calls :
          /\ calls[c].pc = "done"
          /\ calls[c].found
          /\ Len(cells) = 2
          /\ cells[1].id = calls[c].id
          /\ cells[1].output = calls[c].stored
          /\ cells[2].id = Uuid(1)

\* the cell with this id is shown as executing
Executing(id) == \E i \in DOMAIN cells : cells[i].id = id /\ cells[i].isExecuting

\* C26: every call that has set isExecuting reaches its final set, which
\* resets it, whether a result, an error reply or the timeout settles the
\* race; and no cell that exists stays executing forever.
C26_ExecutingIsReset ==
    /\ \A c \in 1..MaxCalls :
          (c \in DOMAIN calls) ~> (c \in DOMAIN calls /\ calls[c].pc = "done")
    /\ \A n \in 1..MaxUuids : Executing(Uuid(n)) ~> ~Executing(Uuid(n))

\* C26 witness: one call was settled by a reply and one by the timeout, and
\* the cell they ran, which still exists, is not executing
C26_Witness ==
    /\ \E c \in DOMAIN calls, d \in DOMAIN calls, i \in DOMAIN cells :
          /\ calls[c].pc = "done" /\ calls[c].timer = "armed"
          /\ calls[d].pc = "done" /\ calls[d].timer = "fired"
          /\ calls[d].stored = catchOutput(ExecutionError(TimeoutMessage))
          /\ cells[i].id = calls[c].id
          /\ cells[i].id = calls[d].id
          /\ ~cells[i].isExecuting

\* the calls for a cell that have started and not yet made their final set
InFlight(id) == {c \in DOMAIN calls : calls[c].id = id /\ calls[c].pc # "done"}

\* C28: a cell is shown as executing exactly when at least one call for it
\* is in flight, also when the cell is run again while a call is in flight.
C28_ExecutingIffInFlight ==
    \A i \in DOMAIN cells : cells[i].isExecuting <=> InFlight(cells[i].id) # {}

\* the list with the cells at places k and j exchanged
Swapped(cs, k, j) ==
    [i \in DOMAIN cs |-> IF i = k THEN cs[j] ELSE IF i = j THEN cs[k] ELSE cs[i]]

\* C29: moveCell(id, direction) exchanges the cell that has the id with its
\* neighbour in the direction; when that cell is at the boundary, or no cell
\* has the id, the list stays as it is.
C29_MoveSwapsOrKeeps ==
    \A n \in 1..uuids, direction \in {"up", "down"} :
        LET k == findIndex(cells, Uuid(n)) + 1
            j == IF direction = "up" THEN k - 1 ELSE k + 1
        IN  MoveCell(cells, Uuid(n), direction) =
               IF k >= 1 /\ j \in DOMAIN cells THEN Swapped(cells, k, j) ELSE cells

\* C30: converting the cell at any place of the list, the first included,
\* to the other type leaves a cell of that type at the same place with the
\* content the cell had, and every other cell where and as it was.
C30_ConvertKeepsPlaceAndContent ==
    [][\A i \in DOMAIN cells, type \in CellTypes :
          handleConvertCell(type, cells[i].id, cells[i].content) =>
             /\ Len(cells') = Len(cells)
             /\ cells'[i].type = type
             /\ cells'[i].content = cells[i].content
             /\ \A j \in DOMAIN cells : j # i => cells'[j] = cells[j]]_vars

(***************************************************************************)
(* Claims about the side effects of one run_code call.                     *)
(***************************************************************************)
\* C27: a run_code call applies the source to the namespace exactly once:
\* the bindings after the call are those one execution of the source, from
\* its first line to its last, leaves.
C27_SourceRunsOnce ==
    lastCall.ran =>
        LastRun.py.globals = exec(Redirected(lastCall.before), lastCall.code).py.globals


====
